---- MODULE Spec2Model ----
(***************************************************************************)
(* Model of Apps/ScreenTimeApp/create_icons.py: create_icon(size,         *)
(* filename) renders one square icon and saves it; main() iterates a      *)
(* fixed list of 15 (size, filename) pairs, counts the successes and      *)
(* prints a summary.  The canvas is modelled by its dimensions and the    *)
(* list of drawing calls made on it, the filesystem by the set of         *)
(* existing directories and a map from paths to file contents, and the    *)
(* console by the sequence of emitted lines.                              *)
(***************************************************************************)
EXTENDS Integers, Sequences, FiniteSets, TLC

\* ------------------------------------------------------------------ bounds
\* faults injected over a whole behaviour
MaxFaults == 2
\* times the script is run against the same filesystem
MaxRuns == 2
\* sizes 1..MaxSize are synthesised for create_icon in SizeSpec
MaxSize == 160

\* --------------------------------------------------------------- constants
IconDir == "/Users/ameen/Documents/ScreenTimeRewards-Workspace/Apps/ScreenTimeApp/ScreenTimeApp/Assets.xcassets/AppIcon.appiconset"

IconDirEcho == "   /Users/ameen/Documents/ScreenTimeRewards-Workspace/Apps/ScreenTimeApp/ScreenTimeApp/Assets.xcassets/AppIcon.appiconset/"

Icons ==
  << <<40, "app-icon-20x20@2x.png">>,
     <<60, "app-icon-20x20@3x.png">>,
     <<58, "app-icon-29x29@2x.png">>,
     <<87, "app-icon-29x29@3x.png">>,
     <<80, "app-icon-40x40@2x.png">>,
     <<120, "app-icon-40x40@3x.png">>,
     <<120, "app-icon-60x60@2x.png">>,
     <<180, "app-icon-60x60@3x.png">>,
     <<20, "app-icon-20x20@1x.png">>,
     <<29, "app-icon-29x29@1x.png">>,
     <<40, "app-icon-40x40@1x.png">>,
     <<76, "app-icon-76x76@1x.png">>,
     <<152, "app-icon-76x76@2x.png">>,
     <<167, "app-icon-83.5x83.5@2x.png">>,
     <<1024, "app-icon-1024x1024@1x.png">> >>

\* ----------------------------------------------------------------- helpers
Max(a, b) == IF a >= b THEN a ELSE b

Range(s) == { s[k] : k \in DOMAIN s }

NoImg == [w |-> 0, h |-> 0, bg |-> "", ops |-> << >>]

\* ------------------------------------------------- create_icon's geometry
\* the canvas allocated one row short
NewCanvasShort(sz) == [w |-> sz, h |-> sz - 1, bg |-> "#007AFF", ops |-> << >>]

NewCanvas(sz) == [w |-> sz, h |-> sz, bg |-> "#007AFF", ops |-> << >>]

Margin(sz) == sz \div 6

EllipseOp(sz) ==
  [op |-> "ellipse",
   xy |-> <<Margin(sz), Margin(sz), sz - Margin(sz), sz - Margin(sz)>>,
   fill |-> "white", outline |-> "#333333", width |-> Max(1, sz \div 40)]

Center(sz) == sz \div 2

\* the hand length taken as a third of the side
HandLengthThird(sz) == sz \div 3

HandLength(sz) == sz \div 4

LineWidth(sz) == Max(1, sz \div 25)

HourHandOp(sz) ==
  [op |-> "line",
   xy |-> <<Center(sz), Center(sz), Center(sz), Center(sz) - HandLength(sz) \div 2>>,
   fill |-> "#333333", outline |-> "", width |-> LineWidth(sz)]

MinuteHandOp(sz) ==
  [op |-> "line",
   xy |-> <<Center(sz), Center(sz), Center(sz) + HandLength(sz) \div 2, Center(sz)>>,
   fill |-> "#333333", outline |-> "", width |-> LineWidth(sz)]

\* the star gate with a strict comparison
DrawsStarStrict(sz) == sz > 40

DrawsStar(sz) == sz >= 40

StarSize(sz) == sz \div 8

StarX(sz) == sz - StarSize(sz) - Margin(sz) \div 2

StarY(sz) == Margin(sz) \div 2

StarCoords(sz) ==
  << <<StarX(sz) + StarSize(sz) \div 2, StarY(sz)>>,
     <<StarX(sz) + StarSize(sz), StarY(sz) + StarSize(sz) \div 2>>,
     <<StarX(sz) + StarSize(sz) \div 2, StarY(sz) + StarSize(sz)>>,
     <<StarX(sz), StarY(sz) + StarSize(sz) \div 2>> >>

StarOp(sz) ==
  [op |-> "polygon", xy |-> StarCoords(sz),
   fill |-> "#FFD700", outline |-> "#FFA500", width |-> 1]

\* ------------------------------------------------ create_icon's filesystem
\* os.makedirs(icon_dir) without exist_ok
ExistOkOmitted == FALSE

\* os.makedirs(icon_dir, exist_ok=True)
ExistOk == TRUE

\* a makedirs that raises whenever the directory is already there
MakedirsRaisesIfPresent(ds, d) == d \in ds

\* os.makedirs raises FileExistsError iff the directory exists and
\* exist_ok is false
MakedirsRaises(ds, d) == d \in ds /\ ~ExistOk

\* os.path.join(icon_dir, filename) for a filename without separators
Join(d, name) == <<d, name>>

\* img.save(icon_path, 'PNG', quality=95): the encoded file is determined by
\* the raster, i.e. by the canvas dimensions, background and drawing calls
EncodePNG(im) == [format |-> "PNG", w |-> im.w, h |-> im.h, bg |-> im.bg, data |-> im.ops]

\* the file is opened for writing: created if absent, replaced if present
WriteFile(fs, p, c) == [q \in (DOMAIN fs) \cup {p} |-> IF q = p THEN c ELSE fs[q]]

\* ------------------------------------------------ create_icon's exceptions
\* the exception each step raises when it fails
FaultOf(step) ==
  CASE step = "new" -> "MemoryError"
    [] step = "ellipse" -> "ValueError"
    [] step = "hour" -> "ValueError"
    [] step = "minute" -> "ValueError"
    [] step = "star" -> "TypeError"
    [] step = "makedirs" -> "PermissionError"
    [] step = "save" -> "OSError"

FaultSteps == {"new", "ellipse", "hour", "minute", "star", "makedirs", "save"}

\* a handler that matches OSError and its subclasses only
CaughtOSError(e) == e \in {"PermissionError", "OSError", "FileExistsError"}

\* no handler at all
CaughtNothing(e) == FALSE

\* except Exception as e: every one of the classes above derives from Exception
Caught(e) == e \in {"MemoryError", "ValueError", "TypeError", "PermissionError", "OSError", "FileExistsError"}

\* ------------------------------------------------------------ main's logic
\* an iteration that skips every other entry
NextIndexSkipping(k) == k + 2

\* for size, filename in icons: the position of the next entry
NextIndex(k) == k + 1

\* a counter incremented whatever create_icon returned
CountEveryCall(c, r) == c + 1

\* if create_icon(size, filename): success_count += 1
Count(c, r) == IF r THEN c + 1 ELSE c

\* the celebration printed as soon as one icon was created
AllCreatedIfAny(c, n) == c > 0

\* if success_count == len(icons)
AllCreated(c, n) == c = n

CelebrationLines ==
  << <<"all_created">>, <<"features_header">>, <<"feature", "blue_background">>,
     <<"feature", "white_clock_face">>, <<"feature", "clock_hands">>,
     <<"feature", "gold_star">>, <<"feature", "clean_design">> >>

WarningLines == << <<"manual_creation_warning">> >>

PathLines == << <<"saved_to">>, <<"path", IconDirEcho>> >>

\* ------------------------------------------------------------------- state
VARIABLES
  icons,          \* main's local list
  pc,             \* position in the script
  i,              \* number of list entries the for loop has taken
  size, filename, \* create_icon's parameters
  img,            \* create_icon's canvas
  exc,            \* the exception in flight, "" if none
  ret,            \* create_icon's return value
  success_count,  \* main's counter
  out,            \* lines printed by the current run
  dirs, files,    \* the filesystem
  run,            \* which run of the script this is
  faults,         \* faults injected so far
  calls,          \* history: create_icon calls of the current run
  rets,           \* history: their return values
  outMark,        \* history: Len(out) when create_icon was entered
  raisedAt,       \* history: the step of the current call that raised, "" if none
  faulted,        \* history: filenames whose call had a fault injected in the current run
  saved,          \* history: the current call completed its save step
  prevFiles       \* history: files when the current run started

vars == <<icons, pc, i, size, filename, img, exc, ret, success_count, out,
          dirs, files, run, faults, calls, rets, outMark, raisedAt, faulted, saved, prevFiles>>

fsVars == <<dirs, files>>
callVars == <<size, filename, img, exc, ret>>
mainVars == <<icons, i, success_count>>
histVars == <<calls, rets, outMark, raisedAt, faulted, saved, prevFiles>>

InitWith(list) ==
  /\ icons = list
  /\ pc = "main"
  /\ i = 0
  /\ size = 0
  /\ filename = ""
  /\ img = NoImg
  /\ exc = ""
  /\ ret = FALSE
  /\ success_count = 0
  /\ out = << >>
  /\ dirs = {}
  /\ files = << >>
  /\ run = 1
  /\ faults = 0
  /\ calls = << >>
  /\ rets = << >>
  /\ outMark = 0
  /\ raisedAt = ""
  /\ faulted = {}
  /\ saved = FALSE
  /\ prevFiles = << >>

Init == InitWith(Icons)

\* -------------------------------------------------------------------- main
MainStart ==
  /\ pc = "main"
  /\ out' = Append(out, <<"banner">>)
  /\ success_count' = 0
  /\ i' = 0
  /\ pc' = "for"
  /\ UNCHANGED <<icons, callVars, fsVars, run, faults, histVars>>

ForCall ==
  /\ pc = "for"
  /\ i < Len(icons)
  /\ i' = NextIndex(i)
  /\ size' = icons[i + 1][1]
  /\ filename' = icons[i + 1][2]
  /\ img' = NoImg
  /\ exc' = ""
  /\ calls' = Append(calls, icons[i + 1])
  /\ outMark' = Len(out)
  /\ raisedAt' = ""
  /\ saved' = FALSE
  /\ pc' = "new"
  /\ UNCHANGED <<icons, ret, success_count, out, fsVars, run, faults, rets, faulted, prevFiles>>

ForReturn ==
  /\ pc = "returned"
  /\ success_count' = Count(success_count, ret)
  /\ pc' = "for"
  /\ UNCHANGED <<icons, i, callVars, out, fsVars, run, faults, histVars>>

ForExit ==
  /\ pc = "for"
  /\ i >= Len(icons)
  /\ pc' = "summary"
  /\ UNCHANGED <<mainVars, callVars, out, fsVars, run, faults, histVars>>

Summary ==
  /\ pc = "summary"
  /\ out' = Append(out, <<"summary", success_count, Len(icons)>>)
  /\ pc' = "branch"
  /\ UNCHANGED <<mainVars, callVars, fsVars, run, faults, histVars>>

Celebrate ==
  /\ pc = "branch"
  /\ AllCreated(success_count, Len(icons))
  /\ out' = out \o CelebrationLines
  /\ pc' = "path"
  /\ UNCHANGED <<mainVars, callVars, fsVars, run, faults, histVars>>

Warn ==
  /\ pc = "branch"
  /\ ~AllCreated(success_count, Len(icons))
  /\ out' = out \o WarningLines
  /\ pc' = "path"
  /\ UNCHANGED <<mainVars, callVars, fsVars, run, faults, histVars>>

PrintPath ==
  /\ pc = "path"
  /\ out' = out \o PathLines
  /\ pc' = "done"
  /\ UNCHANGED <<mainVars, callVars, fsVars, run, faults, histVars>>

\* the script is run again on the filesystem the previous run left
Rerun ==
  /\ pc = "done"
  /\ run < MaxRuns
  /\ run' = run + 1
  /\ pc' = "main"
  /\ i' = 0
  /\ size' = 0
  /\ filename' = ""
  /\ img' = NoImg
  /\ exc' = ""
  /\ ret' = FALSE
  /\ success_count' = 0
  /\ out' = << >>
  /\ calls' = << >>
  /\ rets' = << >>
  /\ outMark' = 0
  /\ raisedAt' = ""
  /\ faulted' = {}
  /\ saved' = FALSE
  /\ prevFiles' = files
  /\ UNCHANGED <<icons, fsVars, faults>>

\* ------------------------------------------------------------- create_icon
stepFrame == <<mainVars, size, filename, exc, ret, out, run, faults, histVars>>

NewImage ==
  /\ pc = "new"
  /\ img' = NewCanvas(size)
  /\ pc' = "ellipse"
  /\ UNCHANGED <<stepFrame, fsVars>>

DrawEllipse ==
  /\ pc = "ellipse"
  /\ img' = [img EXCEPT !.ops = Append(@, EllipseOp(size))]
  /\ pc' = "hour"
  /\ UNCHANGED <<stepFrame, fsVars>>

DrawHourHand ==
  /\ pc = "hour"
  /\ img' = [img EXCEPT !.ops = Append(@, HourHandOp(size))]
  /\ pc' = "minute"
  /\ UNCHANGED <<stepFrame, fsVars>>

DrawMinuteHand ==
  /\ pc = "minute"
  /\ img' = [img EXCEPT !.ops = Append(@, MinuteHandOp(size))]
  /\ pc' = IF DrawsStar(size) THEN "star" ELSE "makedirs"
  /\ UNCHANGED <<stepFrame, fsVars>>

DrawStar ==
  /\ pc = "star"
  /\ img' = [img EXCEPT !.ops = Append(@, StarOp(size))]
  /\ pc' = "makedirs"
  /\ UNCHANGED <<stepFrame, fsVars>>

MakeDirs ==
  /\ pc = "makedirs"
  /\ IF MakedirsRaises(dirs, IconDir)
       THEN /\ exc' = "FileExistsError"
            /\ raisedAt' = "makedirs"
            /\ pc' = "except"
            /\ UNCHANGED dirs
       ELSE /\ dirs' = dirs \cup {IconDir}
            /\ pc' = "save"
            /\ UNCHANGED <<exc, raisedAt>>
  /\ UNCHANGED <<mainVars, size, filename, img, ret, out, files, run, faults,
                 calls, rets, outMark, faulted, saved, prevFiles>>

SaveImage ==
  /\ pc = "save"
  /\ files' = WriteFile(files, Join(IconDir, filename), EncodePNG(img))
  /\ saved' = TRUE
  /\ pc' = "created"
  /\ UNCHANGED <<mainVars, size, filename, img, exc, ret, out, dirs, run, faults,
                 calls, rets, outMark, raisedAt, faulted, prevFiles>>

PrintCreated ==
  /\ pc = "created"
  /\ out' = Append(out, <<"created", filename>>)
  /\ ret' = TRUE
  /\ rets' = Append(rets, TRUE)
  /\ pc' = "returned"
  /\ UNCHANGED <<mainVars, size, filename, img, exc, fsVars, run, faults,
                 calls, outMark, raisedAt, faulted, saved, prevFiles>>

\* a fault injected at the step create_icon is about to execute: the step
\* raises instead of taking effect
RaiseFault ==
  /\ pc \in FaultSteps
  /\ faults < MaxFaults
  /\ faults' = faults + 1
  /\ exc' = FaultOf(pc)
  /\ raisedAt' = pc
  /\ faulted' = faulted \cup {filename}
  /\ pc' = "except"
  /\ UNCHANGED <<mainVars, size, filename, img, ret, out, fsVars, run,
                 calls, rets, outMark, saved, prevFiles>>

\* the except clause; an exception it does not match leaves create_icon and
\* main, and ends the script
Except ==
  /\ pc = "except"
  /\ IF Caught(exc)
       THEN /\ out' = Append(out, <<"error", filename>>)
            /\ exc' = ""
            /\ ret' = FALSE
            /\ rets' = Append(rets, FALSE)
            /\ pc' = "returned"
       ELSE /\ pc' = "crashed"
            /\ UNCHANGED <<out, exc, ret, rets>>
  /\ UNCHANGED <<mainVars, size, filename, img, fsVars, run, faults,
                 calls, outMark, raisedAt, faulted, saved, prevFiles>>

CreateIconStep ==
  \/ NewImage
  \/ DrawEllipse
  \/ DrawHourHand
  \/ DrawMinuteHand
  \/ DrawStar
  \/ MakeDirs
  \/ SaveImage
  \/ PrintCreated
  \/ RaiseFault
  \/ Except

MainStep ==
  \/ MainStart
  \/ ForCall
  \/ ForReturn
  \/ ForExit
  \/ Summary
  \/ Celebrate
  \/ Warn
  \/ PrintPath

Next == MainStep \/ CreateIconStep \/ Rerun

Spec == Init /\ [][Next]_vars

\* the interpreter always takes the script's next step; whether the script
\* is run again is up to the user
FairSpec == Spec /\ WF_vars(MainStep \/ CreateIconStep)

\* ------------------------------------------- the list in another order
\* the list rotated left by r places
Rotated(r) == [k \in 1..Len(Icons) |-> Icons[((k - 1 + r) % Len(Icons)) + 1]]

Reversed(list) == [k \in 1..Len(list) |-> list[Len(list) + 1 - k]]

\* entries j and j+1 exchanged
Swapped(j) ==
  [k \in 1..Len(Icons) |-> Icons[IF k = j THEN j + 1 ELSE IF k = j + 1 THEN j ELSE k]]

\* rotations and adjacent exchanges tried by PermSpec
MaxShift == 2

Orders ==
  {Rotated(r) : r \in 0..MaxShift} \cup {Reversed(Rotated(r)) : r \in 0..MaxShift}
    \cup {Swapped(j) : j \in 1..MaxShift}

PermInit == \E list \in Orders : InitWith(list)

\* main over the same 15 entries taken in another order
PermSpec == PermInit /\ [][Next]_vars

\* ----------------------------------------- create_icon on synthesised sizes
TestSizes == (1..MaxSize) \cup {1024}

SizeInit == \E sz \in TestSizes : InitWith(<< <<sz, "test-icon.png">> >>)

\* the loop over a one-entry list with a synthesised size
SizeSpec == SizeInit /\ [][Next]_vars

\* =================================================================== claims
Last(s) == s[Len(s)]

CountTrue(s) == Cardinality({k \in DOMAIN s : s[k]})

AfterLoop == {"summary", "branch", "path", "done"}

PathOf(name) == <<IconDir, name>>

\* the table of section 6 of the specification
SpecTable ==
  { <<20, "app-icon-20x20@1x.png">>, <<40, "app-icon-20x20@2x.png">>,
    <<60, "app-icon-20x20@3x.png">>, <<29, "app-icon-29x29@1x.png">>,
    <<58, "app-icon-29x29@2x.png">>, <<87, "app-icon-29x29@3x.png">>,
    <<40, "app-icon-40x40@1x.png">>, <<80, "app-icon-40x40@2x.png">>,
    <<120, "app-icon-40x40@3x.png">>, <<120, "app-icon-60x60@2x.png">>,
    <<180, "app-icon-60x60@3x.png">>, <<76, "app-icon-76x76@1x.png">>,
    <<152, "app-icon-76x76@2x.png">>, <<167, "app-icon-83.5x83.5@2x.png">>,
    <<1024, "app-icon-1024x1024@1x.png">> }

\* C1: a create_icon call in which a step raised returns False after exactly
\* one diagnostic line naming its filename, no exception leaves create_icon,
\* and a call returns True, after exactly the success line, only if its save
\* step completed.
C1_FaultsContained ==
  /\ pc # "crashed"
  /\ (pc = "returned" /\ raisedAt # "") =>
        /\ ret = FALSE
        /\ exc = ""
        /\ Len(out) = outMark + 1
        /\ Last(out) = <<"error", filename>>
  /\ (pc = "returned" /\ ret) =>
        /\ saved
        /\ raisedAt = ""
        /\ Len(out) = outMark + 1
        /\ Last(out) = <<"created", filename>>
  /\ (pc = "returned" /\ saved) => ret

C1_Witness ==
  /\ pc = "returned"
  /\ raisedAt = "save"
  /\ ret = FALSE
  /\ Last(out) = <<"error", filename>>

\* C2: success_count is the number of calls that returned True, it stays
\* between 0 and the number of entries taken, the summary reports it out of
\* 15, and a run in which exactly one call failed reports 14/15.
C2_SuccessCount ==
  /\ 0 <= success_count
  /\ success_count <= i
  /\ (pc = "for") => success_count = CountTrue(rets)
  /\ (pc \in AfterLoop) => (success_count = CountTrue(rets) /\ Len(rets) = 15)
  /\ (pc \in {"branch", "path", "done"}) =>
        /\ Len(out) >= 17
        /\ out[17] = <<"summary", CountTrue(rets), 15>>
        /\ (CountTrue(rets) = 14) => out[17] = <<"summary", 14, 15>>
        /\ (Cardinality(faulted) = 1) => out[17] = <<"summary", 14, 15>>

C2_Witness ==
  /\ pc = "done"
  /\ faulted = {"app-icon-40x40@1x.png"}
  /\ success_count = 14
  /\ out[17] = <<"summary", 14, 15>>

\* C3: the create_icon calls of a run are the list entries, once each and in
\* list order, whatever failed; when the loop is left all 15 have been made.
C3_EveryEntryInOrder ==
  /\ i <= 15
  /\ calls = SubSeq(Icons, 1, i)
  /\ (pc \in AfterLoop) => calls = Icons

C3_Witness ==
  /\ pc = "summary"
  /\ calls = Icons
  /\ Cardinality(faulted) = 2
  /\ rets[1] = FALSE

\* C4: every run of main reaches its end, never ends by an uncaught
\* exception, and the last line it has emitted at its end is the output
\* directory path.
C4_Terminates ==
  /\ (pc = "main") ~> (pc = "done")
  /\ [](pc # "crashed")
  /\ [](pc = "done" => Last(out) = <<"path", IconDirEcho>>)

C4_Witness ==
  /\ pc = "done"
  /\ faulted # {}
  /\ Last(out) = <<"path", IconDirEcho>>
  /\ \E k \in DOMAIN out : out[k] = <<"manual_creation_warning">>

\* C5: the list has 15 entries, as a set the table of the specification,
\* with 15 distinct filenames; after a run without faults the directory
\* holds exactly one PNG per entry, size x size pixels, at IconDir/filename.
C5_FifteenFiles ==
  /\ Len(icons) = 15
  /\ Range(icons) = SpecTable
  /\ Cardinality({icons[k][2] : k \in DOMAIN icons}) = 15
  /\ (pc = "done" /\ faulted = {}) =>
        /\ IconDir \in dirs
        /\ DOMAIN files = {PathOf(e[2]) : e \in SpecTable}
        /\ Cardinality(DOMAIN files) = 15
        /\ \A e \in SpecTable :
              /\ files[PathOf(e[2])].format = "PNG"
              /\ files[PathOf(e[2])].w = e[1]
              /\ files[PathOf(e[2])].h = e[1]

C5_Witness ==
  /\ pc = "done"
  /\ faulted = {}
  /\ run = 1
  /\ files[PathOf("app-icon-20x20@2x.png")].w = 40
  /\ files[PathOf("app-icon-40x40@1x.png")].w = 40
  /\ files[PathOf("app-icon-40x40@3x.png")].h = 120
  /\ files[PathOf("app-icon-60x60@2x.png")].h = 120

HasCelebration == \E k \in DOMAIN out : out[k] \in Range(CelebrationLines)

HasWarning == \E k \in DOMAIN out : out[k] \in Range(WarningLines)

\* C6: after the loop the summary line comes first and then exactly one
\* block: the celebration iff all 15 calls returned True, the warning iff
\* one returned False; no line of either block precedes the 15th call's
\* return.
C6_OneBlockAfterSummary ==
  /\ (HasCelebration \/ HasWarning) =>
        /\ Len(rets) = 15
        /\ pc \in {"path", "done"}
        /\ out[17][1] = "summary"
  /\ (pc \in {"path", "done"}) =>
        /\ HasCelebration <=> (\A k \in 1..15 : rets[k])
        /\ HasWarning <=> (\E k \in 1..15 : ~rets[k])
        /\ HasCelebration <=> ~HasWarning
        /\ HasCelebration => SubSeq(out, 18, 24) = CelebrationLines
        /\ HasWarning => SubSeq(out, 18, 18) = WarningLines
        /\ (pc = "path") => Len(out) = (IF HasWarning THEN 18 ELSE 24)

C6_Witness ==
  /\ pc = "path"
  /\ HasWarning
  /\ ~HasCelebration
  /\ success_count = 13

\* C7: a second run without faults over the directory and files the first
\* run left raises nothing, every call returns True, it reports 15/15, and
\* it leaves the files and their contents as the first run left them.
C7_SecondRunIdempotent ==
  (run >= 2 /\ faults = 0) =>
     /\ pc \notin {"except", "crashed"}
     /\ (pc = "returned") => ret
     /\ IconDir \in dirs
     /\ Cardinality(DOMAIN prevFiles) = 15
     /\ (pc = "done") =>
           /\ success_count = 15
           /\ out[17] = <<"summary", 15, 15>>
           /\ files = prevFiles

C7_Witness ==
  /\ run = 2
  /\ faults = 0
  /\ pc = "done"
  /\ files = prevFiles
  /\ Cardinality(DOMAIN files) = 15

\* the canvas create_icon draws for a size when nothing fails
Render(sz) ==
  [NewCanvas(sz) EXCEPT !.ops =
     IF DrawsStar(sz)
       THEN <<EllipseOp(sz), HourHandOp(sz), MinuteHandOp(sz), StarOp(sz)>>
       ELSE <<EllipseOp(sz), HourHandOp(sz), MinuteHandOp(sz)>>]

\* the files a run leaves, given the files it found and the entries that had
\* a fault
FilesAfter(before, bad) ==
  LET good == {e \in Range(Icons) : e[2] \notin bad}
      sizeOf(p) == (CHOOSE e \in good : PathOf(e[2]) = p)[1]
  IN [p \in (DOMAIN before) \cup {PathOf(e[2]) : e \in good} |->
        IF p \in {PathOf(e[2]) : e \in good}
          THEN EncodePNG(Render(sizeOf(p)))
          ELSE before[p]]

\* C8: whatever the order in which the 15 entries are taken, a call returns
\* True iff no fault was injected into it and then its file holds the
\* rendering of its size, and the run ends with the files and the count
\* that the set of faulted entries alone determines.
C8_OrderInsensitive ==
  /\ (pc = "returned") =>
        /\ ret <=> (filename \notin faulted)
        /\ ret => files[PathOf(filename)] = EncodePNG(Render(size))
  /\ (pc = "done") =>
        /\ files = FilesAfter(prevFiles, faulted)
        /\ success_count = 15 - Cardinality(faulted)

C8_Witness ==
  /\ icons # Icons
  /\ icons[1][1] = 1024
  /\ pc = "done"
  /\ run = 1
  /\ faulted = {"app-icon-1024x1024@1x.png"}
  /\ success_count = 14
  /\ Cardinality(DOMAIN files) = 14

Polygons == {k \in DOMAIN img.ops : img.ops[k].op = "polygon"}

\* C9: a polygon is drawn iff size >= 40; it is drawn once, has four
\* distinct vertices spanning size//8 in each direction, all inside the
\* canvas and its top-right quadrant, its top vertex (size//6)//2 below the
\* top edge and its right vertex (size//6)//2 left of the right edge.
C9_StarGate ==
  /\ (size < 40) => Polygons = {}
  /\ Cardinality(Polygons) <= 1
  /\ (pc \in {"makedirs", "save", "created"} /\ size >= 40) => Cardinality(Polygons) = 1
  /\ \A k \in Polygons :
        LET v == img.ops[k].xy
            xs == {v[j][1] : j \in DOMAIN v}
            ys == {v[j][2] : j \in DOMAIN v}
            off == (size \div 6) \div 2
        IN /\ Len(v) = 4
           /\ Cardinality(Range(v)) = 4
           /\ \A x \in xs : x >= size \div 2 /\ x <= size - 1
           /\ \A y \in ys : y >= 0 /\ y <= size \div 2
           /\ \E lo \in xs : (lo + size \div 8) \in xs /\ \A x \in xs : lo <= x /\ x <= lo + size \div 8
           /\ \E lo \in ys : (lo + size \div 8) \in ys /\ \A y \in ys : lo <= y /\ y <= lo + size \div 8
           /\ off \in ys /\ \A y \in ys : y >= off
           /\ (size - off) \in xs /\ \A x \in xs : x <= size - off

C9_Witness ==
  /\ size = 40
  /\ pc = "makedirs"
  /\ Cardinality(Polygons) = 1
  /\ img.ops[4].xy = << <<34, 3>>, <<37, 5>>, <<34, 8>>, <<32, 5>> >>

\* C10: both hands start at (size//2, size//2) and are size//8 long, the
\* first ending at (size//2, size//2 - size//8), the second at
\* (size//2 + size//8, size//2), with stroke width max(1, size//25) >= 1;
\* for size 1024 the length is 128.
C10_HandLength ==
  LET c == size \div 2
      n == Len(img.ops)
  IN /\ (n >= 2) =>
          /\ img.ops[2].op = "line"
          /\ img.ops[2].xy = <<c, c, c, c - size \div 8>>
          /\ img.ops[2].width = (IF size \div 25 >= 1 THEN size \div 25 ELSE 1)
          /\ img.ops[2].width >= 1
          /\ (size = 1024) => img.ops[2].xy[2] - img.ops[2].xy[4] = 128
     /\ (n >= 3) =>
          /\ img.ops[3].op = "line"
          /\ img.ops[3].xy = <<c, c, c + size \div 8, c>>
          /\ img.ops[3].width = img.ops[2].width
          /\ (size = 1024) => img.ops[3].xy[3] - img.ops[3].xy[1] = 128

C10_Witness ==
  /\ size = 1024
  /\ Len(img.ops) = 4
  /\ img.ops[2].xy = <<512, 512, 512, 384>>
  /\ img.ops[3].xy = <<512, 512, 640, 512>>
  /\ img.ops[2].width = 40

====
